---- MODULE Spec2Model ----
(***************************************************************************)
(* Ledger engine of the household-bills application: share calculator,     *)
(* contribution extractor, payment status, balance aggregator and          *)
(* settlement resolver, with the stored snapshot (bills, settlement        *)
(* records) they are computed from.                                        *)
(*                                                                         *)
(* Money is fixed point: one unit is $0.001, so the tolerance 0.01 of the  *)
(* source is 10 units and a cent is 10 units.  A quotient a*b/c of the     *)
(* source is (a*b) \div c here (truncated to $0.001).  Amounts are kept    *)
(* small (a few dollars) so that products stay inside TLC's integers.      *)
(* Member ids are 1..NumMembers, in the order of the source's string ids   *)
(* (the roster is returned ORDER BY name and ids are lower-cased names).   *)
(* An optional number (undefined in the source) is a sequence: <<>> when   *)
(* undefined, <<v>> when set.  A nullable map is a flag has... plus the    *)
(* map; a null paidBy is 0.                                                *)
(***************************************************************************)
EXTENDS Integers, Sequences, FiniteSets, TLC

VARIABLES bills, records, now, view, shown, dialog, credit

vars == <<bills, records, now, view, shown, dialog, credit>>

\* the tolerance 0.01 (and the cent that Math.round(x * 100) / 100 rounds to)
EPS == 10

\* bounds of the model
NumMembers == 3
MaxBills == 2
MaxRecords == 2

\* the most, in dollars, recorded as paid on one bill above its amount
MaxExtra == 1

\* the most coverage allocations recorded on one bill
MaxAllocations == 2

\* the most, in dollars, a member's credit reaches
MaxCredit == 2

Members == 1..NumMembers

\* names of the default roster, in id order
Names == <<"Dad", "Drew", "Mom", "Rose", "Steve">>

Name(m) == Names[m]

\* mortgageShare of the default roster (500, 1300, 500, 500, 700), scaled
\* down so that a share of 500 is 1.00 (1000 units)
MortgageShare(m) == CASE m = 2 -> 2600
                      [] m = 5 -> 1400
                      [] OTHER -> 1000

Dollars(n) == n * 100 * EPS

None == <<>>
Some(v) == <<v>>

EmptyMap == [x \in {} |-> 0]

RECURSIVE SumSet(_, _)
SumSet(f, S) == IF S = {} THEN 0
                ELSE LET x == CHOOSE y \in S : TRUE
                     IN f[x] + SumSet(f, S \ {x})

\* Object.values(map).reduce((sum, amt) => sum + amt, 0)
SumValues(f) == SumSet(f, DOMAIN f)

\* map[key] || 0
Get(f, k) == IF k \in DOMAIN f THEN f[k] ELSE 0

Abs(x) == IF x < 0 THEN -x ELSE x

\* the members of S in ascending order
Ascending(S) ==
    CHOOSE seq \in [1..Cardinality(S) -> S] :
       \A i, j \in 1..Cardinality(S) : i < j => seq[i] < seq[j]

Max(a, b) == IF a > b THEN a ELSE b

Min(a, b) == IF a < b THEN a ELSE b

\* Math.round(x * 100) / 100: to the nearest cent, halves toward +infinity
Round2(x) == ((2 * x + EPS) \div (2 * EPS)) * EPS

\* a * (b / c) of the source, truncated to one unit
MulDiv(a, b, c) == (a * b) \div c

(***************************************************************************)
(* Share calculator and contribution extractor (bill-utils).               *)
(***************************************************************************)

\* every person counted once in every item, listed or not
CountEveryone(seq, p) == 1

\* number of times person p is listed in an item's assignedTo
CountIn(seq, p) == Cardinality({i \in DOMAIN seq : seq[i] = p})

RECURSIVE ItemShare(_, _, _)
ItemShare(items, p, i) ==
    IF i > Len(items) THEN 0
    ELSE (IF Len(items[i].assignedTo) > 0
          THEN CountIn(items[i].assignedTo, p)
               * (items[i].amount \div Len(items[i].assignedTo))
          ELSE 0)
         + ItemShare(items, p, i + 1)

Assignees(items) ==
    UNION {{items[i].assignedTo[j] : j \in DOMAIN items[i].assignedTo} :
           i \in DOMAIN items}

\* the even split hands every member the whole amount
calculateBillSharesUndivided(bill) ==
    CASE bill.splitType = "even" -> [m \in Members |-> bill.amount]
      [] bill.splitType = "items" /\ bill.hasItems ->
           [p \in Members \cup Assignees(bill.items) |->
              ItemShare(bill.items, p, 1)]
      [] OTHER -> EmptyMap

calculateBillShares(bill) ==
    CASE bill.splitType = "mortgage" ->
           [m \in Members |-> MortgageShare(m)]
      [] bill.splitType = "even" ->
           [m \in Members |-> bill.amount \div NumMembers]
      [] bill.splitType = "percentage" /\ bill.hasCustomSplits ->
           [m \in Members |-> MulDiv(Get(bill.customSplits, m), bill.amount, 100)]
      [] bill.splitType = "custom" /\ bill.hasCustomSplits ->
           bill.customSplits
      [] bill.splitType = "items" /\ bill.hasItems ->
           [p \in Members \cup Assignees(bill.items) |->
              ItemShare(bill.items, p, 1)]
      [] OTHER -> EmptyMap

getBillContributions(bill) ==
    IF bill.hasContributions THEN bill.paidContributions
    ELSE IF bill.paidBy # 0 THEN (bill.paidBy :> bill.amount)
    ELSE EmptyMap

getTotalPaid(bill) == SumValues(getBillContributions(bill))

isBillFullyPaid(bill) == getTotalPaid(bill) >= bill.amount - EPS

getRemainingAmount(bill) == Max(0, bill.amount - getTotalPaid(bill))

(***************************************************************************)
(* Payment status (types).  The clock: now.utcDay is the UTC calendar day  *)
(* of the current instant, now.pastMidnight whether the instant is after   *)
(* that day's 00:00 UTC, now.localDay the local calendar day.              *)
(* new Date("YYYY-MM-DD") is 00:00 UTC of that day.                        *)
(***************************************************************************)

\* new Date(bill.dueDate) < new Date()
DueBeforeNow(dueDate, clock) ==
    \/ dueDate < clock.utcDay
    \/ dueDate = clock.utcDay /\ clock.pastMidnight

getBillStatus(bill, clock) ==
    IF bill.isPaid THEN "paid"
    ELSE IF /\ bill.hasContributions
            /\ SumValues(bill.paidContributions) > 0
            /\ SumValues(bill.paidContributions) < bill.amount
         THEN "partial"
    ELSE IF DueBeforeNow(bill.dueDate, clock) THEN "overdue"
    ELSE "pending"

getBillPaidAmount(bill) ==
    IF ~bill.hasContributions
    THEN (IF bill.isPaid THEN bill.amount ELSE 0)
    ELSE SumValues(bill.paidContributions)

getBillRemainingAmount(bill) == bill.amount - getBillPaidAmount(bill)

\* the bills page derives the status with its own copy of the function
BillsPageStatus(bill, clock) ==
    IF bill.isPaid THEN "paid"
    ELSE IF /\ bill.hasContributions
            /\ SumValues(bill.paidContributions) > 0
            /\ SumValues(bill.paidContributions) < bill.amount
         THEN "partial"
    ELSE IF DueBeforeNow(bill.dueDate, clock) THEN "overdue"
    ELSE "pending"

(***************************************************************************)
(* Balance aggregator (settlements.ts, calculateBalances).                 *)
(***************************************************************************)

\* variant: only bills with recorded contributions are processed
IsPaidBillContributionsOnly(bill) ==
    /\ bill.hasContributions
    /\ \E p \in DOMAIN bill.paidContributions : bill.paidContributions[p] > 0

\* the paidBills filter shared by the aggregator and the resolver
IsPaidBill(bill) ==
    \/ bill.isPaid /\ (bill.paidBy # 0 \/ bill.hasContributions)
    \/ /\ bill.hasContributions
       /\ \E p \in DOMAIN bill.paidContributions : bill.paidContributions[p] > 0

\* variant: the full share, whatever part of the bill is paid
FullShare(share, totalPaid, totalShares) == share

\* share * Math.min(totalPaid / totalShares, 1)
ProportionalShare(share, totalPaid, totalShares) ==
    IF totalPaid >= totalShares THEN share
    ELSE MulDiv(share, totalPaid, totalShares)

\* variant: every payer's contribution is subtracted by both loops
BillBalancePayersTwice(bill, m) ==
    LET shares == calculateBillShares(bill)
        contributions == getBillContributions(bill)
        totalPaid == SumValues(contributions)
        totalShares == SumValues(shares)
    IN IF totalPaid < EPS \/ totalShares < EPS THEN 0
       ELSE (IF m \in DOMAIN shares
             THEN (IF totalPaid >= totalShares THEN shares[m]
                   ELSE MulDiv(shares[m], totalPaid, totalShares))
                  - Get(contributions, m)
             ELSE 0)
            - Get(contributions, m)

\* what one bill adds to balances[m]
BillBalance(bill, m) ==
    LET shares == calculateBillShares(bill)
        contributions == getBillContributions(bill)
        totalPaid == SumValues(contributions)
        totalShares == SumValues(shares)
    IN IF totalPaid < EPS \/ totalShares < EPS THEN 0
       ELSE (IF m \in DOMAIN shares
             THEN ProportionalShare(shares[m], totalPaid, totalShares)
                  - Get(contributions, m)
             ELSE 0)
            + (IF m \in DOMAIN contributions /\ m \notin DOMAIN shares
               THEN -contributions[m]
               ELSE 0)

RECURSIVE RawBalance(_, _, _)
RawBalance(bs, m, i) ==
    IF i > Len(bs) THEN 0
    ELSE (IF IsPaidBill(bs[i]) THEN BillBalance(bs[i], m) ELSE 0)
         + RawBalance(bs, m, i + 1)

calculateBalances(bs) ==
    [m \in Members |->
       [personId |-> m, personName |-> Name(m), owes |-> Round2(RawBalance(bs, m, 1))]]

(***************************************************************************)
(* Settlement resolver (settlements.ts, calculateSettlementsWithBreakdown).*)
(***************************************************************************)

BreakdownItem(bill, debtor, creditorPaid) ==
    [billId |-> bill.id,
     dueDate |-> bill.dueDate,
     totalAmount |-> bill.amount,
     theirShare |-> Get(calculateBillShares(bill), debtor),
     creditorPaid |-> creditorPaid]

\* the allocations of a bill that are pushed: amount > 0.01
PushedCoverage(bill) ==
    SelectSeq(bill.coverageAllocations, LAMBDA c : c.amount > EPS)

\* billDebts[coveredId][payerId].push throws a TypeError when either id is
\* not a roster member or when both are the same member
CoverageThrows(bill) ==
    \E i \in DOMAIN PushedCoverage(bill) :
       LET c == PushedCoverage(bill)[i]
       IN \/ c.coveredId \notin Members
          \/ c.payerId \notin Members
          \/ c.coveredId = c.payerId

\* explicit coverage: what the bill pushes to billDebts[debtor][creditor]
CoverageItems(bill, debtor, creditor) ==
    LET mine == SelectSeq(PushedCoverage(bill),
                          LAMBDA c : c.coveredId = debtor /\ c.payerId = creditor)
    IN [i \in 1..Len(mine) |-> BreakdownItem(bill, debtor, mine[i].amount)]

\* nets[m] = share - (paid - creditEarned)
BillNet(bill, m) ==
    Get(calculateBillShares(bill), m)
    - (Get(getBillContributions(bill), m) - Get(bill.creditEarned, m))

BillDebtors(bill) == {m \in Members : BillNet(bill, m) > EPS}

BillCreditors(bill) == {m \in Members : BillNet(bill, m) < -EPS}

TotalOwed(bill) ==
    SumSet([m \in Members |-> Abs(BillNet(bill, m))], BillCreditors(bill))

\* variant: debts are inferred for partially paid bills too
InferenceAppliesWhenPartial(bill) ==
    LET totalPaid == SumValues(getBillContributions(bill))
        totalShares == SumValues(calculateBillShares(bill))
    IN /\ ~(totalPaid < EPS \/ totalShares < EPS)
       /\ ~(TotalOwed(bill) < EPS)

\* Only infer debts for FULLY paid bills (within 1% tolerance):
\* totalPaid >= totalShares * 0.99
InferenceApplies(bill) ==
    LET totalPaid == SumValues(getBillContributions(bill))
        totalShares == SumValues(calculateBillShares(bill))
    IN /\ ~(totalPaid < EPS \/ totalShares < EPS)
       /\ 100 * totalPaid >= 99 * totalShares
       /\ ~(TotalOwed(bill) < EPS)

\* variant: each debtor's debt is split equally among the creditors
InferredItemsEqually(bill, debtor, creditor) ==
    IF /\ InferenceApplies(bill)
       /\ debtor \in BillDebtors(bill)
       /\ creditor \in BillCreditors(bill)
    THEN LET amount == BillNet(bill, debtor) \div Cardinality(BillCreditors(bill))
         IN IF amount > EPS THEN <<BreakdownItem(bill, debtor, amount)>> ELSE <<>>
    ELSE <<>>

\* proportional inference: what the bill pushes to billDebts[debtor][creditor]
InferredItems(bill, debtor, creditor) ==
    IF /\ InferenceApplies(bill)
       /\ debtor \in BillDebtors(bill)
       /\ creditor \in BillCreditors(bill)
    THEN LET amount == MulDiv(BillNet(bill, debtor),
                              Abs(BillNet(bill, creditor)), TotalOwed(bill))
         IN IF amount > EPS THEN <<BreakdownItem(bill, debtor, amount)>> ELSE <<>>
    ELSE <<>>

\* variant: the inference runs after the coverage allocations
BillItemsCoverageThenInference(bill, debtor, creditor) ==
    CoverageItems(bill, debtor, creditor) \o InferredItems(bill, debtor, creditor)

\* coverage, when present, is used alone: the inference is skipped
BillItems(bill, debtor, creditor) ==
    IF Len(bill.coverageAllocations) > 0
    THEN CoverageItems(bill, debtor, creditor)
    ELSE InferredItems(bill, debtor, creditor)

RECURSIVE billDebts(_, _, _, _)
billDebts(bs, debtor, creditor, i) ==
    IF i > Len(bs) THEN <<>>
    ELSE (IF IsPaidBill(bs[i]) THEN BillItems(bs[i], debtor, creditor) ELSE <<>>)
         \o billDebts(bs, debtor, creditor, i + 1)

RECURSIVE SumCreditorPaid(_, _)
SumCreditorPaid(items, i) ==
    IF i > Len(items) THEN 0
    ELSE items[i].creditorPaid + SumCreditorPaid(items, i + 1)

\* variant: only the records of type "forgiven" count
RECURSIVE getForgivenOnly(_, _, _, _)
getForgivenOnly(recs, fromId, toId, i) ==
    IF i > Len(recs) THEN 0
    ELSE (IF recs[i].fromId = fromId /\ recs[i].toId = toId /\ recs[i].type = "forgiven"
          THEN recs[i].amount ELSE 0)
         + getForgivenOnly(recs, fromId, toId, i + 1)

RECURSIVE getForgivenBetween(_, _, _, _)
getForgivenBetween(recs, fromId, toId, i) ==
    IF i > Len(recs) THEN 0
    ELSE (IF recs[i].fromId = fromId /\ recs[i].toId = toId
          THEN recs[i].amount ELSE 0)
         + getForgivenBetween(recs, fromId, toId, i + 1)

\* netAmount = totalAOwesB - forgivenAToB - (totalBOwesA - forgivenBToA)
NetAmount(bs, recs, a, b) ==
    SumCreditorPaid(billDebts(bs, a, b, 1), 1) - getForgivenBetween(recs, a, b, 1)
    - (SumCreditorPaid(billDebts(bs, b, a, 1), 1) - getForgivenBetween(recs, b, a, 1))

\* the entry pushed when `from` owes `to` the net amount
SettlementEntry(from, to, net, owes, offset, forgiven) ==
    [from |-> Name(from),
     to |-> Name(to),
     amount |-> Round2(net),
     breakdown |-> owes,
     offsetBreakdown |-> IF Len(offset) > 0 THEN Some(offset) ELSE None,
     grossOwed |-> Round2(SumCreditorPaid(owes, 1)),
     grossOffset |-> IF Len(offset) > 0
                     THEN Some(Round2(SumCreditorPaid(offset, 1))) ELSE None,
     forgiven |-> IF forgiven > EPS THEN Some(Round2(forgiven)) ELSE None]

\* variant: each direction of a pair is emitted on its own, without netting
PairSettlementsGross(bs, recs, a, b) ==
    LET aOwesB == billDebts(bs, a, b, 1)
        bOwesA == billDebts(bs, b, a, 1)
        forgivenAToB == getForgivenBetween(recs, a, b, 1)
        forgivenBToA == getForgivenBetween(recs, b, a, 1)
        netAToB == SumCreditorPaid(aOwesB, 1) - forgivenAToB
        netBToA == SumCreditorPaid(bOwesA, 1) - forgivenBToA
    IN (IF netAToB > EPS
        THEN <<SettlementEntry(a, b, netAToB, aOwesB, <<>>, forgivenAToB)>> ELSE <<>>)
       \o (IF netBToA > EPS
           THEN <<SettlementEntry(b, a, netBToA, bOwesA, <<>>, forgivenBToA)>> ELSE <<>>)

\* variant: a net amount of exactly 0.01 is emitted (>= instead of >)
PairSettlementsInclusive(bs, recs, a, b) ==
    LET aOwesB == billDebts(bs, a, b, 1)
        bOwesA == billDebts(bs, b, a, 1)
        forgivenAToB == getForgivenBetween(recs, a, b, 1)
        forgivenBToA == getForgivenBetween(recs, b, a, 1)
        netAmount == SumCreditorPaid(aOwesB, 1) - forgivenAToB
                     - (SumCreditorPaid(bOwesA, 1) - forgivenBToA)
    IN IF Abs(netAmount) >= EPS
       THEN IF netAmount > 0
            THEN <<SettlementEntry(a, b, netAmount, aOwesB, bOwesA, forgivenAToB)>>
            ELSE <<SettlementEntry(b, a, Abs(netAmount), bOwesA, aOwesB, forgivenBToA)>>
       ELSE <<>>

\* what the pair (a, b), a < b, adds to the settlements
PairSettlements(bs, recs, a, b) ==
    LET aOwesB == billDebts(bs, a, b, 1)
        bOwesA == billDebts(bs, b, a, 1)
        forgivenAToB == getForgivenBetween(recs, a, b, 1)
        forgivenBToA == getForgivenBetween(recs, b, a, 1)
        netAmount == SumCreditorPaid(aOwesB, 1) - forgivenAToB
                     - (SumCreditorPaid(bOwesA, 1) - forgivenBToA)
    IN IF Abs(netAmount) > EPS
       THEN IF netAmount > 0
            THEN <<SettlementEntry(a, b, netAmount, aOwesB, bOwesA, forgivenAToB)>>
            ELSE <<SettlementEntry(b, a, Abs(netAmount), bOwesA, aOwesB, forgivenBToA)>>
       ELSE <<>>

RECURSIVE SettlementsFrom(_, _, _, _)
SettlementsFrom(bs, recs, a, b) ==
    IF a > NumMembers THEN <<>>
    ELSE IF b > NumMembers THEN SettlementsFrom(bs, recs, a + 1, 1)
    ELSE (IF a < b THEN PairSettlements(bs, recs, a, b) ELSE <<>>)
         \o SettlementsFrom(bs, recs, a, b + 1)

ResolverThrows(bs) ==
    \E i \in DOMAIN bs :
       /\ IsPaidBill(bs[i])
       /\ Len(bs[i].coverageAllocations) > 0
       /\ CoverageThrows(bs[i])

calculateSettlementsWithBreakdown(bs, recs) ==
    IF ResolverThrows(bs) THEN <<>> ELSE SettlementsFrom(bs, recs, 1, 1)

\* calculateSettlements: from, to and amount only
calculateSettlements(bs, recs) ==
    LET full == calculateSettlementsWithBreakdown(bs, recs)
    IN [i \in 1..Len(full) |->
          [from |-> full[i].from, to |-> full[i].to, amount |-> full[i].amount]]

(***************************************************************************)
(* The stored snapshot and the operations that change it.                  *)
(***************************************************************************)

\* a bill as the bills API stores and returns it: unpaid, split evenly
NewBill ==
    [id |-> 0, amount |-> Dollars(6), dueDate |-> 0, splitType |-> "even",
     paidBy |-> 0, hasContributions |-> FALSE, paidContributions |-> EmptyMap,
     creditUsed |-> EmptyMap, creditEarned |-> EmptyMap,
     coverageAllocations |-> <<>>, isPaid |-> FALSE,
     hasCustomSplits |-> FALSE, customSplits |-> EmptyMap,
     hasItems |-> FALSE, items |-> <<>>]

Allocation(payer, covered, amount) ==
    [payerId |-> payer, coveredId |-> covered, amount |-> amount]

\* SettlementsPage: balances and settlements are recomputed (useMemo) from
\* the fetched bills, members and settlement records; failed records that
\* the resolver raised a TypeError instead of returning
ComputeView(bs, recs) ==
    [balances |-> calculateBalances(bs),
     settlements |-> calculateSettlementsWithBreakdown(bs, recs),
     failed |-> ResolverThrows(bs)]

Closed == [open |-> FALSE, billId |-> 0, status |-> "", totalPaid |-> 0, remaining |-> 0]

Noon == [utcDay |-> 0, pastMidnight |-> TRUE, localDay |-> 0]

FreshId == CHOOSE i \in 1..(Len(bills) + 1) : \A j \in DOMAIN bills : bills[j].id # i

\* POST /api/bills, then fetchBills
CreateBill(input) ==
    /\ Len(bills) < MaxBills
    /\ bills' = Append(bills, [input EXCEPT !.id = FreshId])
    /\ view' = ComputeView(bills', records)
    /\ UNCHANGED <<records, now, shown, dialog, credit>>

\* POST /api/settlements; the list is returned newest first
CreateSettlementRecord(record) ==
    /\ Len(records) < MaxRecords
    /\ records' = <<record>> \o records
    /\ view' = ComputeView(bills, records')
    /\ UNCHANGED <<bills, now, shown, dialog, credit>>

\* DELETE /api/settlements?clearAll=true
ClearAllSettlementRecords ==
    /\ Len(records) > 0
    /\ records' = <<>>
    /\ view' = ComputeView(bills, records')
    /\ UNCHANGED <<bills, now, shown, dialog, credit>>

\* the id the Settlements page finds for a displayed name
getMemberIdByName(n) == CHOOSE m \in Members : Name(m) = n

\* variant: the gross amount owed is recorded instead of the net amount shown
SettleShownGross(k, type) ==
    /\ k \in DOMAIN view.settlements
    /\ CreateSettlementRecord([fromId |-> getMemberIdByName(view.settlements[k].from),
                               toId |-> getMemberIdByName(view.settlements[k].to),
                               amount |-> view.settlements[k].grossOwed,
                               type |-> type])

\* SettlementsPage handleForgive / handleMarkPaid on the k-th settlement
\* shown, then handleForgiveDebt / handleMarkSettlementPaid
SettleShown(k, type) ==
    /\ k \in DOMAIN view.settlements
    /\ CreateSettlementRecord([fromId |-> getMemberIdByName(view.settlements[k].from),
                               toId |-> getMemberIdByName(view.settlements[k].to),
                               amount |-> view.settlements[k].amount,
                               type |-> type])

\* PaymentBreakdownDialog renders the bill: status, total paid, remaining
OpenBreakdown ==
    /\ \E i \in DOMAIN bills :
          shown' = [open |-> TRUE,
                    billId |-> bills[i].id,
                    status |-> getBillStatus(bills[i], now),
                    totalPaid |-> getBillPaidAmount(bills[i]),
                    remaining |-> getBillRemainingAmount(bills[i])]
    /\ UNCHANGED <<bills, records, now, view, dialog, credit>>

\* MultiPayerDialog opens for a bill: its shares are computed (useMemo)
OpenPayDialog(i) ==
    /\ ~bills[i].isPaid
    /\ dialog' = Some([billId |-> bills[i].id,
                       shares |-> calculateBillShares(bills[i])])
    /\ UNCHANGED <<bills, records, now, view, shown, credit>>

\* the shares the open payment dialog shows after the bills were fetched
\* again (useMemo on the bill object)
DialogShares(bs) ==
    IF dialog = None THEN None
    ELSE IF \E i \in DOMAIN bs : bs[i].id = dialog[1].billId
         THEN LET i == CHOOSE j \in DOMAIN bs : bs[j].id = dialog[1].billId
              IN Some([billId |-> bs[i].id, shares |-> calculateBillShares(bs[i])])
         ELSE None

\* variant: getBillContributions writes the single payer's contribution into
\* the bill it was given
PollStoringContributions ==
    /\ bills' = [i \in DOMAIN bills |->
                   [bills[i] EXCEPT !.hasContributions = TRUE,
                                    !.paidContributions = getBillContributions(bills[i])]]
    /\ view' = ComputeView(bills', records)
    /\ dialog' = DialogShares(bills')
    /\ UNCHANGED <<records, now, shown, credit>>

\* every 30 seconds the bills and records are fetched again; the pages
\* recompute balances, settlements and the dialog's shares from the result
Poll ==
    /\ view' = ComputeView(bills, records)
    /\ dialog' = DialogShares(bills)
    /\ UNCHANGED <<bills, records, now, shown, credit>>

(***************************************************************************)
(* Member credit (useMembers).  The handlers of one click read the credit  *)
(* from the roster their closure captured, so every call made by one       *)
(* handler reads the credit as it was when the handler started.            *)
(***************************************************************************)

\* updateMember(id, {credit: currentCredit + amount})
addCredit(current, amount) == current + amount

\* variant: the credit is not kept at or above zero
useCreditUnclamped(current, amount) == current - amount

\* updateMember(id, {credit: Math.max(0, currentCredit - amount)})
useCredit(current, amount) == Max(0, current - amount)

\* updateMember(id, {credit: Math.max(0, amount)})
setCredit(amount) == Max(0, amount)

(***************************************************************************)
(* Payment dialog (MultiPayerDialog.handleConfirm).  An entry is what the  *)
(* user entered: the selected payers, the cash and the credit of each, and *)
(* the coverage choice applied to the payers above their share.            *)
(***************************************************************************)

\* coveringFor: no selection or "_cover_all"
CoverAllChoice == 0

\* coveringFor: "_credit"
CreditChoice == -1

PayerAmount(e, m) ==
    IF m \in e.payers THEN Get(e.amounts, m) + Get(e.creditToUse, m) ELSE 0

totalPayment(e) == SumSet([m \in e.payers |-> PayerAmount(e, m)], e.payers)

DialogContributions(e) ==
    [m \in {p \in e.payers : PayerAmount(e, p) > 0} |-> PayerAmount(e, m)]

creditUsedMap(e) ==
    [m \in {p \in e.payers : Get(e.creditToUse, p) > 0} |-> e.creditToUse[m]]

payersOverShare(sh, e) == {p \in e.payers : PayerAmount(e, p) > Get(sh, p) + EPS}

Excess(sh, e, p) == PayerAmount(e, p) - Get(sh, p)

Shortfall(sh, e, m) == Max(0, Get(sh, m) - PayerAmount(e, m))

membersNeedingCoverage(sh, e) ==
    {m \in Members : Get(sh, m) >= EPS /\ PayerAmount(e, m) < Get(sh, m) - EPS}

\* covering a specific person
CoverOne(sh, e, p, c) ==
    LET coverAmount == Min(Excess(sh, e, p), Shortfall(sh, e, c))
    IN IF coverAmount > EPS THEN <<Allocation(p, c, Round2(coverAmount))>> ELSE <<>>

\* default: cover everyone who is short, fully or in proportion
CoverAll(sh, e, p) ==
    LET short == {m \in membersNeedingCoverage(sh, e) \ {p} : Shortfall(sh, e, m) > EPS}
        order == Ascending(short)
        totalShortfall == SumSet([m \in short |-> Shortfall(sh, e, m)], short)
        excess == Excess(sh, e, p)
        raw == [i \in 1..Len(order) |->
                  Allocation(p, order[i],
                             IF excess >= totalShortfall - EPS
                             THEN Shortfall(sh, e, order[i])
                             ELSE MulDiv(excess, Shortfall(sh, e, order[i]),
                                         totalShortfall))]
        kept == IF excess >= totalShortfall - EPS THEN raw
                ELSE SelectSeq(raw, LAMBDA c : c.amount > EPS)
    IN IF totalShortfall > EPS
       THEN [i \in 1..Len(kept) |-> [kept[i] EXCEPT !.amount = Round2(@)]]
       ELSE <<>>

PayerAllocations(sh, e, p) ==
    IF e.coveringFor = CreditChoice THEN <<>>
    ELSE IF e.coveringFor # CoverAllChoice THEN CoverOne(sh, e, p, e.coveringFor)
    ELSE CoverAll(sh, e, p)

RECURSIVE AllocationsFrom(_, _, _, _)
AllocationsFrom(sh, e, order, i) ==
    IF i > Len(order) THEN <<>>
    ELSE PayerAllocations(sh, e, order[i]) \o AllocationsFrom(sh, e, order, i + 1)

\* the coverage allocations handleConfirm builds
DialogCoverage(sh, e) == AllocationsFrom(sh, e, Ascending(payersOverShare(sh, e)), 1)

SumAllocations(cov, S) == SumSet([i \in DOMAIN cov |-> cov[i].amount], S)

uncoveredExcess(sh, e) ==
    LET over == payersOverShare(sh, e)
        cov == DialogCoverage(sh, e)
    IN Max(0, SumSet([p \in over |-> Excess(sh, e, p)], over)
              - SumAllocations(cov, DOMAIN cov))

\* "If only one payer and no credit used, use simple paidBy field"
SimplePath(e) == Cardinality(e.payers) = 1 /\ DOMAIN creditUsedMap(e) = {}

\* a map with the amounts of `add` added to those of `base`
MergeAdd(base, add) ==
    [m \in DOMAIN base \cup DOMAIN add |-> Get(base, m) + Get(add, m)]

\* markAsPaid: isFullPayment
isFullPayment(hasC, contributions, paidBy, billAmount) ==
    LET totalPaid == IF hasC THEN SumValues(contributions)
                     ELSE IF paidBy # 0 /\ billAmount # 0 THEN billAmount
                     ELSE 0
    IN IF billAmount # 0 THEN totalPaid >= billAmount - EPS ELSE TRUE

\* handleConfirm: the single payer of the simple path, else none
DialogPaidBy(e) == IF SimplePath(e) THEN CHOOSE p \in e.payers : TRUE ELSE 0

\* Bills onConfirm: mergedContributions, or the whole bill for the one payer
\* of the simple path
FinalContributions(bill, e) ==
    IF SimplePath(e) THEN DialogPaidBy(e) :> bill.amount
    ELSE MergeAdd(IF bill.hasContributions THEN bill.paidContributions ELSE EmptyMap,
                  DialogContributions(e))

\* coveragePerPayer
CoveringAmount(sh, e, p) ==
    LET cov == DialogCoverage(sh, e)
    IN SumAllocations(cov, {i \in DOMAIN cov : cov[i].payerId = p})

\* Bills onConfirm: the credit a contributor earns from the excess that was
\* not assigned as coverage
EarnedCredit(bill, e, sh, p) ==
    LET actualOverpayment == Get(FinalContributions(bill, e), p)
                             - Get(calculateBillShares(bill), p)
                             - CoveringAmount(sh, e, p)
    IN IF /\ uncoveredExcess(sh, e) > EPS
          /\ p \in DOMAIN FinalContributions(bill, e)
          /\ actualOverpayment > EPS
       THEN Round2(actualOverpayment) ELSE 0

\* creditEarnedMap
EarnedMap(bill, e, sh) ==
    LET all == [p \in Members |-> EarnedCredit(bill, e, sh, p)]
    IN [p \in {q \in Members : all[q] > 0} |-> all[p]]

\* the bill that PUT /api/bills stores after the dialog is confirmed: a
\* field that is undefined in the update is left as stored
BillAfterConfirm(bill, e, sh) ==
    [bill EXCEPT
       !.isPaid = isFullPayment(~SimplePath(e), FinalContributions(bill, e),
                                DialogPaidBy(e), bill.amount),
       !.paidBy = DialogPaidBy(e),
       !.hasContributions = IF SimplePath(e) THEN @ ELSE TRUE,
       !.paidContributions = IF SimplePath(e) THEN @ ELSE FinalContributions(bill, e),
       !.creditUsed = MergeAdd(@, creditUsedMap(e)),
       !.creditEarned = MergeAdd(@, EarnedMap(bill, e, sh)),
       !.coverageAllocations = @ \o DialogCoverage(sh, e)]

\* onUseCredit for the credit used, then onAddCredit for the credit earned,
\* each reading the credit the handler started with
CreditAfterConfirm(bill, e, sh) ==
    LET earned == EarnedMap(bill, e, sh)
    IN [m \in Members |->
          IF m \in DOMAIN earned THEN addCredit(credit[m], earned[m])
          ELSE IF Get(e.creditToUse, m) > 0 /\ m \in e.payers
               THEN useCredit(credit[m], e.creditToUse[m])
          ELSE credit[m]]

\* the amounts kept in the model: recorded payments, allocations and credit
WithinCaps(bill, cr) ==
    /\ SumValues(bill.paidContributions) <= bill.amount + Dollars(MaxExtra)
    /\ Len(bill.coverageAllocations) <= MaxAllocations
    /\ \A m \in Members : cr[m] <= Dollars(MaxCredit)
    /\ \A m \in DOMAIN bill.creditUsed : bill.creditUsed[m] <= Dollars(MaxCredit)
    /\ \A m \in DOMAIN bill.creditEarned : bill.creditEarned[m] <= Dollars(MaxCredit)

\* handleConfirm, Bills onConfirm, handleMarkPaid, markAsPaid, PUT, fetch
ConfirmPayment(e) ==
    /\ dialog # None
    /\ e.payers # {}
    /\ totalPayment(e) > 0
    /\ \A m \in DOMAIN e.creditToUse : e.creditToUse[m] <= credit[m]
    /\ \E i \in DOMAIN bills :
          /\ bills[i].id = dialog[1].billId
          /\ bills' = [bills EXCEPT ![i] = BillAfterConfirm(bills[i], e, dialog[1].shares)]
          /\ credit' = CreditAfterConfirm(bills[i], e, dialog[1].shares)
          /\ WithinCaps(bills'[i], credit')
    /\ dialog' = None
    /\ view' = ComputeView(bills', records)
    /\ UNCHANGED <<records, now, shown>>

\* handleMarkUnpaid: addCredit for each entry of creditUsed, then useCredit
\* for each entry of creditEarned, each reading the credit the handler
\* started with
CreditAfterUnpaid(bill, cr) ==
    [m \in Members |->
       IF m \in DOMAIN bill.creditEarned THEN useCredit(cr[m], bill.creditEarned[m])
       ELSE IF m \in DOMAIN bill.creditUsed THEN addCredit(cr[m], bill.creditUsed[m])
       ELSE cr[m]]

\* handleMarkUnpaid: credit used is restored, credit earned is removed, then
\* markAsUnpaid; every field it sends as undefined is left as stored
MarkUnpaid(i) ==
    /\ bills[i].isPaid \/ BillsPageStatus(bills[i], now) = "partial"
    /\ credit' = CreditAfterUnpaid(bills[i], credit)
    /\ \A m \in Members : credit'[m] <= Dollars(MaxCredit)
    /\ bills' = [bills EXCEPT ![i] = [@ EXCEPT !.isPaid = FALSE, !.paidBy = 0]]
    /\ view' = ComputeView(bills', records)
    /\ UNCHANGED <<records, now, shown, dialog>>

\* "Convert legacy paidBy to paidContributions if needed"
LegacyContributions(bill) ==
    IF bill.hasContributions THEN bill.paidContributions
    ELSE IF bill.paidBy # 0 THEN (bill.paidBy :> bill.amount)
    ELSE EmptyMap

\* the stored bill after the payments were replaced by `updated`
BillWithPayments(bill, updated) ==
    IF DOMAIN updated = {}
    THEN [bill EXCEPT !.isPaid = FALSE, !.paidBy = 0]
    ELSE [bill EXCEPT !.isPaid = SumValues(updated) >= bill.amount - EPS,
                      !.paidBy = 0,
                      !.hasContributions = TRUE,
                      !.paidContributions = updated]

\* the bills page opens the payment breakdown of a bill only when it is
\* paid or partly paid and has a payer or contributions
isClickable(bill) ==
    /\ BillsPageStatus(bill, now) \in {"paid", "partial"}
    /\ bill.hasContributions \/ bill.paidBy # 0

\* PaymentBreakdownDialog onUpdatePayment
UpdatePayment(i, personId, newAmount) ==
    /\ isClickable(bills[i])
    /\ personId \in DOMAIN LegacyContributions(bills[i])
    /\ LET base == LegacyContributions(bills[i])
           updated == IF newAmount = 0
                      THEN [m \in DOMAIN base \ {personId} |-> base[m]]
                      ELSE [m \in DOMAIN base \cup {personId} |->
                              IF m = personId THEN newAmount ELSE base[m]]
       IN bills' = [bills EXCEPT ![i] = BillWithPayments(bills[i], updated)]
    /\ view' = ComputeView(bills', records)
    /\ UNCHANGED <<records, now, shown, dialog, credit>>

\* PaymentBreakdownDialog onDeletePayment
DeletePayment(i, personId) ==
    /\ isClickable(bills[i])
    /\ personId \in DOMAIN LegacyContributions(bills[i])
    /\ credit' = [credit EXCEPT ![personId] =
                    IF Get(bills[i].creditEarned, personId) # 0
                    THEN useCredit(@, bills[i].creditEarned[personId]) ELSE @]
    /\ LET base == LegacyContributions(bills[i])
           updated == [m \in DOMAIN base \ {personId} |-> base[m]]
           earned == [m \in DOMAIN bills[i].creditEarned \ {personId} |->
                        bills[i].creditEarned[m]]
           after == BillWithPayments(bills[i], updated)
       IN bills' = [bills EXCEPT ![i] =
                      [after EXCEPT !.creditEarned =
                          IF DOMAIN earned = {} THEN @ ELSE earned]]
    /\ view' = ComputeView(bills', records)
    /\ UNCHANGED <<records, now, shown, dialog>>

\* the member's remaining share of an unpaid bill (getUnpaidBillsForMember)
RemainingShare(bill, m) ==
    Max(0, Get(calculateBillShares(bill), m) - Get(getBillContributions(bill), m))

\* PayShareDialog and handlePayMemberShare, for one bill
PayMemberShare(i, memberId, amount) ==
    /\ ~bills[i].isPaid
    /\ RemainingShare(bills[i], memberId) > EPS
    /\ amount > 0
    /\ amount <= RemainingShare(bills[i], memberId) + EPS
    /\ LET paying == Round2(Min(amount, RemainingShare(bills[i], memberId)))
           existing == IF bills[i].hasContributions THEN bills[i].paidContributions
                       ELSE EmptyMap
           newContributions == MergeAdd(existing, (memberId :> paying))
       IN bills' = [bills EXCEPT ![i] =
                      [@ EXCEPT !.isPaid = isFullPayment(TRUE, newContributions, 0,
                                                         bills[i].amount),
                                !.paidBy = 0,
                                !.hasContributions = TRUE,
                                !.paidContributions = newContributions]]
    /\ view' = ComputeView(bills', records)
    /\ UNCHANGED <<records, now, shown, dialog, credit>>

\* useMembers: setCredit, addCredit and useCredit called for one member
SetCredit(m, amount) ==
    /\ credit' = [credit EXCEPT ![m] = setCredit(amount)]
    /\ UNCHANGED <<bills, records, now, view, shown, dialog>>

AddCredit(m, amount) ==
    /\ addCredit(credit[m], amount) <= Dollars(MaxCredit)
    /\ credit' = [credit EXCEPT ![m] = addCredit(@, amount)]
    /\ UNCHANGED <<bills, records, now, view, shown, dialog>>

UseCredit(m, amount) ==
    /\ credit' = [credit EXCEPT ![m] = useCredit(@, amount)]
    /\ UNCHANGED <<bills, records, now, view, shown, dialog>>

\* the payment dialog is dismissed
ClosePayDialog ==
    /\ dialog # None
    /\ dialog' = None
    /\ UNCHANGED <<bills, records, now, view, shown, credit>>

\* time passes 00:00 UTC of the current UTC day
Tick ==
    /\ ~now.pastMidnight
    /\ now' = [now EXCEPT !.pastMidnight = TRUE]
    /\ shown' = Closed
    /\ UNCHANGED <<bills, records, view, dialog, credit>>

(***************************************************************************)
(* Spec: bills with single payers and explicit coverage, and settlement    *)
(* records (netting and forgiveness).                                      *)
(***************************************************************************)

FullBy(p) == [NewBill EXCEPT !.paidBy = p, !.isPaid = TRUE]

Covered(payer, covered, amount) ==
    [NewBill EXCEPT !.hasContributions = TRUE,
                    !.paidContributions = (payer :> Dollars(6)),
                    !.isPaid = TRUE,
                    !.coverageAllocations = <<Allocation(payer, covered, amount)>>]

CoverageAmounts == {Dollars(1), Dollars(2) + EPS + 1}

\* payer and covered member of the coverage bills
CoveredPairs == {<<1, 2>>, <<2, 1>>, <<1, 3>>, <<3, 2>>}

NettingBills ==
    {FullBy(p) : p \in Members}
    \cup {Covered(pc[1], pc[2], a) : pc \in CoveredPairs, a \in CoverageAmounts}

RecordAmounts == {Dollars(1), Dollars(2) - EPS}

\* debtor and creditor of the records: both directions of one pair, and a
\* second pair
RecordPairs == {<<1, 2>>, <<2, 1>>, <<1, 3>>}

RecordInputs ==
    {[fromId |-> ft[1], toId |-> ft[2], amount |-> a, type |-> t] :
       ft \in RecordPairs,
       a \in RecordAmounts, t \in {"forgiven", "paid"}}

\* the bills added to a snapshot that already has one
FurtherBills == {FullBy(1), Covered(1, 2, Dollars(1)), Covered(2, 1, Dollars(2) + EPS + 1)}

\* the records added to a list that already has one
FurtherRecords ==
    {[fromId |-> 2, toId |-> 1, amount |-> Dollars(1), type |-> "forgiven"],
     [fromId |-> 1, toId |-> 2, amount |-> Dollars(1), type |-> "paid"]}

Init ==
    /\ bills = <<>>
    /\ records = <<>>
    /\ now = Noon
    /\ view = ComputeView(<<>>, <<>>)
    /\ shown = Closed
    /\ dialog = None
    /\ credit = [m \in Members |-> 0]

Next ==
    \/ bills = <<>> /\ \E b \in NettingBills : CreateBill(b)
    \/ bills # <<>> /\ \E b \in FurtherBills : CreateBill(b)
    \/ records = <<>> /\ \E r \in RecordInputs : CreateSettlementRecord(r)
    \/ records # <<>> /\ \E r \in FurtherRecords : CreateSettlementRecord(r)
    \/ ClearAllSettlementRecords

Spec == Init /\ [][Next]_vars

(***************************************************************************)
(* Properties of the settlement resolver under Spec.                       *)
(***************************************************************************)

\* the entries of a settlement list that are between members a and b
EntriesBetween(setts, a, b) ==
    {i \in DOMAIN setts : {setts[i].from, setts[i].to} = {Name(a), Name(b)}}

\* the total the bills attribute from debtor to creditor
Attributed(bs, debtor, creditor) ==
    SumCreditorPaid(billDebts(bs, debtor, creditor, 1), 1)

OrderedPairs == {x \in Members \X Members : x[1] # x[2]}

\* C1 as stated: at most one settlement per unordered pair, and, without
\* settlement records and with x - y > 0.01, exactly one entry from A to B
\* with amount = x - y, grossOwed = x and grossOffset = y.
C1_AsStated ==
    \A p \in OrderedPairs :
       LET a == p[1]
           b == p[2]
           x == Attributed(bills, a, b)
           y == Attributed(bills, b, a)
           mine == EntriesBetween(view.settlements, a, b)
       IN /\ Cardinality(mine) <= 1
          /\ (x - y > EPS /\ records = <<>>) =>
                /\ Cardinality(mine) = 1
                /\ \A i \in mine :
                      /\ view.settlements[i].from = Name(a)
                      /\ view.settlements[i].to = Name(b)
                      /\ view.settlements[i].amount = x - y
                      /\ view.settlements[i].grossOwed = x
                      /\ view.settlements[i].grossOffset = Some(y)

\* C1 (amended): every unordered pair of members has at most one settlement;
\* when the bills attribute x from A to B and y from B to A with
\* x - y > 0.01 and there are no settlement records, the pair has exactly
\* one entry, from A to B, with amount x - y and grossOwed x, each rounded
\* to the cent, and with grossOffset y rounded to the cent when some debt is
\* attributed from B to A, undefined when none is.
C1_PairNetting ==
    \A p \in OrderedPairs :
       LET a == p[1]
           b == p[2]
           x == Attributed(bills, a, b)
           y == Attributed(bills, b, a)
           mine == EntriesBetween(view.settlements, a, b)
       IN /\ Cardinality(mine) <= 1
          /\ (x - y > EPS /\ records = <<>>) =>
                /\ Cardinality(mine) = 1
                /\ \A i \in mine :
                      /\ view.settlements[i].from = Name(a)
                      /\ view.settlements[i].to = Name(b)
                      /\ view.settlements[i].amount = Round2(x - y)
                      /\ view.settlements[i].grossOwed = Round2(x)
                      /\ view.settlements[i].grossOffset =
                            (IF Len(billDebts(bills, b, a, 1)) > 0
                             THEN Some(Round2(y)) ELSE None)

\* a pair owes in both directions and is netted to one entry
C1_Witness ==
    /\ records = <<>>
    /\ Attributed(bills, 1, 2) = Dollars(2)
    /\ Attributed(bills, 2, 1) = Dollars(1)
    /\ \E i \in DOMAIN view.settlements :
          /\ view.settlements[i].from = Name(1)
          /\ view.settlements[i].to = Name(2)
          /\ view.settlements[i].amount = Dollars(1)
          /\ view.settlements[i].grossOwed = Dollars(2)
          /\ view.settlements[i].grossOffset = Some(Dollars(1))

\* the entries of a settlement list that are not between members a and b
Others(setts, a, b) ==
    SelectSeq(setts, LAMBDA e : {e.from, e.to} # {Name(a), Name(b)})

\* the step adds the record r, of debtor A and creditor B, to a snapshot for
\* which the resolver emits "A owes B n" with 0.01 < r.amount < n - 0.01
ForgivesPartOf(r, i) ==
    /\ bills' = bills
    /\ records' = <<r>> \o records
    /\ i \in DOMAIN view.settlements
    /\ view.settlements[i].from = Name(r.fromId)
    /\ view.settlements[i].to = Name(r.toId)
    /\ r.amount > EPS
    /\ r.amount < view.settlements[i].amount - EPS

\* C2 as stated: the pair's entry becomes "A owes B n - f" with forgiven = f,
\* and the other pairs' entries are unchanged.
C2_AsStated ==
    [][\A r \in RecordInputs \cup FurtherRecords : \A i \in DOMAIN view.settlements :
          ForgivesPartOf(r, i) =>
             /\ \E j \in DOMAIN view'.settlements :
                   /\ view'.settlements[j].from = Name(r.fromId)
                   /\ view'.settlements[j].to = Name(r.toId)
                   /\ view'.settlements[j].amount =
                         view.settlements[i].amount - r.amount
                   /\ view'.settlements[j].forgiven = Some(r.amount)
             /\ Others(view'.settlements, r.fromId, r.toId)
                = Others(view.settlements, r.fromId, r.toId)]_vars

\* C2 (amended): the pair's entry becomes "A owes B n - f", its forgiven is
\* the total recorded from A to B, f included, whatever the type of the
\* record, and the other pairs' entries are unchanged.
C2_ForgivenessReduces ==
    [][\A r \in RecordInputs \cup FurtherRecords : \A i \in DOMAIN view.settlements :
          ForgivesPartOf(r, i) =>
             /\ \E j \in DOMAIN view'.settlements :
                   /\ EntriesBetween(view'.settlements, r.fromId, r.toId) = {j}
                   /\ view'.settlements[j].from = Name(r.fromId)
                   /\ view'.settlements[j].to = Name(r.toId)
                   /\ view'.settlements[j].amount =
                         view.settlements[i].amount - r.amount
                   /\ view'.settlements[j].forgiven =
                         Some(Round2(r.amount
                              + getForgivenBetween(records, r.fromId, r.toId, 1)))
             /\ Others(view'.settlements, r.fromId, r.toId)
                = Others(view.settlements, r.fromId, r.toId)]_vars

\* a "paid" record of $1 has reduced "Dad owes Drew $2" to $1, next to an
\* untouched settlement of another pair
C2_Witness ==
    /\ Len(records) = 1
    /\ records[1] = [fromId |-> 1, toId |-> 2, amount |-> Dollars(1), type |-> "paid"]
    /\ Attributed(bills, 1, 2) = Dollars(2)
    /\ Attributed(bills, 2, 1) = 0
    /\ Attributed(bills, 3, 2) > 0
    /\ \E i \in DOMAIN view.settlements :
          /\ view.settlements[i].from = Name(1)
          /\ view.settlements[i].to = Name(2)
          /\ view.settlements[i].amount = Dollars(1)
          /\ view.settlements[i].forgiven = Some(Dollars(1))

Item(amount, assignedTo) == [amount |-> amount, assignedTo |-> assignedTo]

Split(splitType, hasCustomSplits, customSplits, hasItems, items) ==
    [splitType |-> splitType, hasCustomSplits |-> hasCustomSplits,
     customSplits |-> customSplits, hasItems |-> hasItems, items |-> items]

Splits ==
    {Split("even", FALSE, EmptyMap, FALSE, <<>>),
     Split("mortgage", FALSE, EmptyMap, FALSE, <<>>),
     Split("custom", TRUE, (1 :> Dollars(4)) @@ (2 :> Dollars(2)), FALSE, <<>>),
     Split("percentage", TRUE, (1 :> 50) @@ (2 :> 50), FALSE, <<>>),
     Split("items", FALSE, EmptyMap, TRUE,
           <<Item(Dollars(4), <<2, 3>>), Item(Dollars(2), <<3>>)>>)}

Payment(paidBy, hasContributions, contributions, creditEarned, isPaid) ==
    [paidBy |-> paidBy, hasContributions |-> hasContributions,
     paidContributions |-> contributions, creditEarned |-> creditEarned,
     isPaid |-> isPaid]

Payments ==
    {Payment(0, FALSE, EmptyMap, EmptyMap, FALSE),
     Payment(1, FALSE, EmptyMap, EmptyMap, TRUE),
     Payment(0, TRUE, (1 :> Dollars(6)), EmptyMap, TRUE),
     Payment(0, TRUE, (1 :> Dollars(4)) @@ (2 :> Dollars(2)), EmptyMap, TRUE),
     Payment(0, TRUE, (1 :> Dollars(3) + 500) @@ (2 :> Dollars(2) + 500), EmptyMap, TRUE),
     Payment(0, TRUE, (1 :> Dollars(2)) @@ (2 :> Dollars(2)) @@ (3 :> Dollars(2)),
             EmptyMap, TRUE),
     Payment(0, TRUE, (2 :> Dollars(2) + 400), EmptyMap, FALSE),
     Payment(0, TRUE, (1 :> Dollars(6) - 50), EmptyMap, FALSE),
     Payment(0, TRUE, (3 :> Dollars(7)), (3 :> Dollars(1)), TRUE),
     Payment(0, TRUE, (3 :> Dollars(7)), EmptyMap, TRUE),
     Payment(1, TRUE, EmptyMap, EmptyMap, TRUE)}

Coverages ==
    {<<>>,
     <<Allocation(1, 2, Dollars(2))>>,
     <<Allocation(1, 2, Dollars(2)), Allocation(1, 3, EPS)>>,
     <<Allocation(2, 3, Dollars(1) + 500), Allocation(1, 3, 500)>>}

LedgerBill(s, p, c) ==
    [NewBill EXCEPT !.splitType = s.splitType,
                    !.hasCustomSplits = s.hasCustomSplits,
                    !.customSplits = s.customSplits,
                    !.hasItems = s.hasItems,
                    !.items = s.items,
                    !.paidBy = p.paidBy,
                    !.hasContributions = p.hasContributions,
                    !.paidContributions = p.paidContributions,
                    !.creditEarned = p.creditEarned,
                    !.isPaid = p.isPaid,
                    !.coverageAllocations = c]

\* bills of several amounts, split evenly and paid whole by one member
EvenAmounts == {Dollars(6), Dollars(10), 3 * EPS}

SinglePayerBills == {[FullBy(p) EXCEPT !.amount = a] : p \in Members, a \in EvenAmounts}

LedgerBills ==
    {LedgerBill(s, p, c) : s \in Splits, p \in Payments, c \in Coverages}
    \cup SinglePayerBills

\* the bills added to a snapshot that already has one: paid by Dad alone,
\* 40% paid by Drew, or overpaid by Mom with the excess taken as credit
CompanionBills ==
    {LedgerBill(s, p, c) :
       s \in {x \in Splits : x.splitType \in {"even", "mortgage"}},
       p \in {Payment(1, FALSE, EmptyMap, EmptyMap, TRUE),
              Payment(0, TRUE, (2 :> Dollars(2) + 400), EmptyMap, FALSE),
              Payment(0, TRUE, (3 :> Dollars(7)), (3 :> Dollars(1)), TRUE)},
       c \in {<<>>, <<Allocation(1, 2, Dollars(2))>>}}

LedgerNext ==
    \/ bills = <<>> /\ \E b \in LedgerBills : CreateBill(b)
    \/ bills # <<>> /\ \E b \in CompanionBills : CreateBill(b)

LedgerSpec == Init /\ [][LedgerNext]_vars

(***************************************************************************)
(* Properties of the resolver and the aggregator under LedgerSpec.         *)
(***************************************************************************)

ItemsOfBill(items, id) == SelectSeq(items, LAMBDA it : it.billId = id)

AmountsOf(items) == [i \in 1..Len(items) |-> items[i].creditorPaid]

AllocatedTo(bill, debtor, creditor) ==
    LET mine == SelectSeq(bill.coverageAllocations,
                          LAMBDA c : /\ c.coveredId = debtor
                                     /\ c.payerId = creditor
                                     /\ c.amount > EPS)
    IN [i \in 1..Len(mine) |-> mine[i].amount]

MemberNamed(n) == CHOOSE m \in Members : Name(m) = n

\* the items of an entry's offsetBreakdown, none when it is undefined
OffsetItems(entry) ==
    IF entry.offsetBreakdown = None THEN <<>> ELSE entry.offsetBreakdown[1]

\* the breakdown items of the settlements shown that come from bill `id`,
\* each with the debtor and the creditor it is charged between
ShownItemsOfBill(setts, id) ==
    UNION {{<<MemberNamed(setts[k].from), MemberNamed(setts[k].to),
              setts[k].breakdown[j].creditorPaid>> :
               j \in {x \in DOMAIN setts[k].breakdown :
                        setts[k].breakdown[x].billId = id}}
           \cup {<<MemberNamed(setts[k].to), MemberNamed(setts[k].from),
                   OffsetItems(setts[k])[j].creditorPaid>> :
                    j \in {x \in DOMAIN OffsetItems(setts[k]) :
                             OffsetItems(setts[k])[x].billId = id}} :
           k \in DOMAIN setts}

\* C3: for a processed bill that has coverage allocations, the debts the
\* bill generates are exactly its allocations above 0.01, each one charged
\* to the covered member in favour of the payer for the allocation's amount;
\* nothing is inferred from shares and contributions, so every breakdown
\* item of the settlements shown that names the bill is one of its allocations.
C3_CoverageOnly ==
    \A i \in DOMAIN bills :
       (IsPaidBill(bills[i]) /\ Len(bills[i].coverageAllocations) > 0) =>
          /\ \A p \in OrderedPairs :
                AmountsOf(ItemsOfBill(billDebts(bills, p[1], p[2], 1), bills[i].id))
                = AllocatedTo(bills[i], p[1], p[2])
          /\ \A it \in ShownItemsOfBill(view.settlements, bills[i].id) :
                \E k \in DOMAIN bills[i].coverageAllocations :
                   bills[i].coverageAllocations[k]
                   = Allocation(it[2], it[1], it[3])

\* C3 witness: a bill paid in full by Dad and split evenly, with one
\* allocation (Dad covers 2.00 for Drew): the only settlement is Drew owing
\* Dad 2.00, although Mom paid nothing toward her share.
C3_Witness ==
    /\ Len(bills) = 1
    /\ bills[1].splitType = "even"
    /\ getBillContributions(bills[1]) = (1 :> Dollars(6))
    /\ bills[1].coverageAllocations = <<Allocation(1, 2, Dollars(2))>>
    /\ Len(view.settlements) = 1
    /\ view.settlements[1].from = "Drew"
    /\ view.settlements[1].to = "Dad"
    /\ view.settlements[1].amount = Dollars(2)

Without(bs, i) == SubSeq(bs, 1, i - 1) \o SubSeq(bs, i + 1, Len(bs))

NoCoverage(bill) == Len(bill.coverageAllocations) = 0

\* C4 as stated: a bill without coverage whose total contributions are below
\* amount - 0.01 leaves the settlements as they are without the bill.
C4_AsStated ==
    \A i \in DOMAIN bills :
       (NoCoverage(bills[i]) /\ getTotalPaid(bills[i]) < bills[i].amount - EPS) =>
          view.settlements = calculateSettlementsWithBreakdown(Without(bills, i), records)

\* C4: a bill without coverage whose total contributions are below 99% of
\* the sum of its shares generates no debt: the settlements are the same
\* with the bill as without it.
C4_BelowNinetyNinePercent ==
    \A i \in DOMAIN bills :
       (/\ NoCoverage(bills[i])
        /\ 100 * getTotalPaid(bills[i]) < 99 * SumValues(calculateBillShares(bills[i]))) =>
          view.settlements = calculateSettlementsWithBreakdown(Without(bills, i), records)

\* C4 witness: a bill split evenly of which Drew paid 40%, next to a bill
\* that does generate settlements.
C4_Witness ==
    /\ Len(bills) = 2
    /\ NoCoverage(bills[2])
    /\ bills[2].splitType = "even"
    /\ getBillContributions(bills[2]) = (2 :> Dollars(2) + 400)
    /\ Len(view.settlements) > 0
    /\ view.settlements = calculateSettlementsWithBreakdown(<<bills[1]>>, records)

SumOwes(balances) == SumSet([m \in Members |-> balances[m].owes], Members)

\* a bill whose total contributions reach the amount (within 0.01) and whose
\* payers and share holders are all roster members
FullyPaidByRoster(bill) ==
    /\ IsPaidBill(bill)
    /\ isBillFullyPaid(bill)
    /\ DOMAIN getBillContributions(bill) \subseteq Members
    /\ DOMAIN calculateBillShares(bill) \subseteq Members

\* C5 as stated: for fully paid bills of any split type whose payers are
\* roster members the balances sum to zero within 0.01.
C5_AsStated ==
    (\A i \in DOMAIN bills : FullyPaidByRoster(bills[i])) =>
       Abs(SumOwes(view.balances)) <= EPS

\* C5: for fully paid bills whose payers are roster members and whose total
\* contributions do not exceed the sum of the shares, the balances sum to
\* zero up to the rounding of each balance to the cent (half a cent per
\* member).
C5_Conservation ==
    (\A i \in DOMAIN bills :
        /\ FullyPaidByRoster(bills[i])
        /\ getTotalPaid(bills[i]) <= SumValues(calculateBillShares(bills[i]))) =>
       2 * Abs(SumOwes(view.balances)) <= NumMembers * EPS

\* C5 witness: two fully paid bills with different payers, contributions
\* equal to the shares' total, members with nonzero balances.
C5_Witness ==
    /\ Len(bills) = 2
    /\ \A i \in DOMAIN bills :
          /\ FullyPaidByRoster(bills[i])
          /\ getTotalPaid(bills[i]) <= SumValues(calculateBillShares(bills[i]))
    /\ DOMAIN getBillContributions(bills[1]) # DOMAIN getBillContributions(bills[2])
    /\ \E m \in Members : view.balances[m].owes > 0
    /\ \E m \in Members : view.balances[m].owes < 0
    /\ SumOwes(view.balances) = 0

\* what the statement of C10 gives for one bill and one member
StatedBalance(bill, m) ==
    LET shares == calculateBillShares(bill)
        contributions == getBillContributions(bill)
        totalPaid == SumValues(contributions)
        totalShares == SumValues(shares)
    IN IF ~IsPaidBill(bill) \/ totalPaid < EPS \/ totalShares < EPS THEN 0
       ELSE IF m \in DOMAIN shares
            THEN (shares[m] * Min(totalPaid, totalShares)) \div totalShares
                 - Get(contributions, m)
            ELSE -Get(contributions, m)

RECURSIVE SumStated(_, _, _)
SumStated(bs, m, i) ==
    IF i > Len(bs) THEN 0 ELSE StatedBalance(bs[i], m) + SumStated(bs, m, i + 1)

\* C10: each member's balance is the sum, over the processed bills with
\* total paid and total shares of at least 0.01, of share * min(total paid /
\* total shares, 1) minus the member's contribution (minus the contribution
\* alone for a payer without a share), rounded to the cent.
C10_ProportionalBalances ==
    \A m \in Members :
       /\ view.balances[m].personId = m
       /\ view.balances[m].owes = Round2(SumStated(bills, m, 1))

\* C10 witness: one bill split evenly of which Drew paid 40%: every member
\* is responsible for 40% of the share of 2.00.
C10_Witness ==
    /\ Len(bills) = 1
    /\ bills[1].splitType = "even"
    /\ getBillContributions(bills[1]) = (2 :> Dollars(2) + 400)
    /\ view.balances[1].owes = 800
    /\ view.balances[2].owes = 800 - (Dollars(2) + 400)
    /\ view.balances[3].owes = 800

\* the bills of the snapshot, when it is one bill split evenly and paid
\* whole by a single payer (paidBy set, isPaid, nothing else recorded)
SinglePayerSnapshot ==
    /\ Len(bills) = 1
    /\ records = <<>>
    /\ bills[1].splitType = "even"
    /\ bills[1].isPaid
    /\ bills[1].paidBy # 0
    /\ ~bills[1].hasContributions
    /\ bills[1].coverageAllocations = <<>>
    /\ bills[1].creditEarned = EmptyMap

\* the settlements from member m to the payer
SettlementsToPayer(m) ==
    {i \in DOMAIN view.settlements :
       /\ view.settlements[i].from = Name(m)
       /\ view.settlements[i].to = Name(bills[1].paidBy)}

\* C13 as stated: for a bill split evenly among n >= 2 members and paid by
\* the single payer P, every other member's balance is +amount/n and P's is
\* -(n-1)*amount/n, and the resolver emits exactly one settlement from each
\* other member to P, for amount/n, and nothing else.
C13_AsStated ==
    SinglePayerSnapshot =>
       LET P == bills[1].paidBy
           each == bills[1].amount \div NumMembers
       IN /\ \A m \in Members \ {P} : view.balances[m].owes = each
          /\ view.balances[P].owes = each - bills[1].amount
          /\ Len(view.settlements) = NumMembers - 1
          /\ \A m \in Members \ {P} :
                /\ Cardinality(SettlementsToPayer(m)) = 1
                /\ \A i \in SettlementsToPayer(m) : view.settlements[i].amount = each

\* C13 (amended): for a bill split evenly among n >= 2 members and paid by
\* the single payer P, every other member's balance is amount/n rounded to
\* the cent and P's is amount/n - amount rounded to the cent; when amount/n
\* is above 0.01 the resolver emits exactly one settlement from each other
\* member to P, for amount/n rounded to the cent, and nothing else; when
\* amount/n is 0.01 or less it emits nothing.
C13_SinglePayerEven ==
    SinglePayerSnapshot =>
       LET P == bills[1].paidBy
           each == bills[1].amount \div NumMembers
       IN /\ \A m \in Members \ {P} : view.balances[m].owes = Round2(each)
          /\ view.balances[P].owes = Round2(each - bills[1].amount)
          /\ each > EPS =>
                /\ Len(view.settlements) = NumMembers - 1
                /\ \A m \in Members \ {P} :
                      /\ Cardinality(SettlementsToPayer(m)) = 1
                      /\ \A i \in SettlementsToPayer(m) :
                            view.settlements[i].amount = Round2(each)
          /\ each <= EPS => view.settlements = <<>>

\* a bill of 10.00 paid whole by Drew: the others' share does not fall on
\* a cent
C13_Witness ==
    /\ SinglePayerSnapshot
    /\ bills[1].amount = Dollars(10)
    /\ bills[1].paidBy = 2
    /\ Len(view.settlements) = NumMembers - 1

\* what member m receives less what m pays under the emitted settlements
SettledNet(m) ==
    SumSet([i \in DOMAIN view.settlements |->
              IF view.settlements[i].to = Name(m) THEN view.settlements[i].amount
              ELSE IF view.settlements[i].from = Name(m)
                   THEN -view.settlements[i].amount
              ELSE 0],
           DOMAIN view.settlements)

Unsettled == {m \in Members : SettledNet(m) # 0}

\* the ways of grouping the members with a non-zero net so that the nets of
\* every group cancel
CancellingGroupings ==
    {g \in [Unsettled -> 1..Cardinality(Unsettled)] :
       \A b \in 1..Cardinality(Unsettled) :
          SumSet([m \in Unsettled |-> SettledNet(m)], {m \in Unsettled : g[m] = b}) = 0}

\* the fewest payments that give every member the same net: a group of k
\* members whose nets cancel is settled by k - 1 payments
FewestPayments ==
    IF Unsettled = {} THEN 0
    ELSE CHOOSE n \in 0..Cardinality(Unsettled) :
           /\ \E g \in CancellingGroupings :
                 n = Cardinality(Unsettled) - Cardinality({g[m] : m \in Unsettled})
           /\ \A g \in CancellingGroupings :
                 n <= Cardinality(Unsettled) - Cardinality({g[m] : m \in Unsettled})

\* C15 as stated: the emitted settlements are a minimal set of payments: no
\* set of fewer payments between members gives every member the same net
\* amount paid or received.
C15_AsStated == Len(view.settlements) <= FewestPayments

\* the debt the statement attributes on a bill from debtor d to creditor c:
\* net(d) x |net(c)| / (sum of |net| over the creditors), above 0.01 only
StatedNet(bill, m) ==
    Get(calculateBillShares(bill), m)
    - (Get(getBillContributions(bill), m) - Get(bill.creditEarned, m))

StatedDebt(bill, d, c) ==
    LET creditors == {m \in Members : StatedNet(bill, m) < -EPS}
        total == SumSet([m \in Members |-> -StatedNet(bill, m)], creditors)
    IN IF StatedNet(bill, d) > EPS /\ c \in creditors
       THEN IF MulDiv(StatedNet(bill, d), -StatedNet(bill, c), total) > EPS
            THEN <<MulDiv(StatedNet(bill, d), -StatedNet(bill, c), total)>>
            ELSE <<>>
       ELSE <<>>

AgreeingSnapshot ==
    /\ bills # <<>>
    /\ records = <<>>
    /\ \A i \in DOMAIN bills :
          /\ bills[i].isPaid
          /\ isBillFullyPaid(bills[i])
          /\ NoCoverage(bills[i])
          /\ bills[i].creditEarned = EmptyMap
          /\ DOMAIN getBillContributions(bills[i]) \subseteq Members
          /\ Abs(getTotalPaid(bills[i]) - SumValues(calculateBillShares(bills[i])))
             < NumMembers

\* what member m owes less what m is owed under the settlements shown
SettlementBalance(m) == -SettledNet(m)

SettlementsOf(m) ==
    {k \in DOMAIN view.settlements :
       Name(m) \in {view.settlements[k].from, view.settlements[k].to}}

\* the debt of d toward c on a bill before the 0.01 threshold
UnfilteredDebt(bill, d, c) ==
    LET creditors == {m \in Members : StatedNet(bill, m) < -EPS}
        total == SumSet([m \in Members |-> -StatedNet(bill, m)], creditors)
    IN IF StatedNet(bill, d) > EPS /\ c \in creditors
       THEN MulDiv(StatedNet(bill, d), -StatedNet(bill, c), total)
       ELSE 0

\* the entries dropped that involve member m: debts of at most 0.01 on a
\* bill, nets of at most 0.01 on a bill (the member is neither debtor nor
\* creditor), and nets of at most 0.01 between a pair
DroppedEntries(m) ==
    Cardinality({<<i, x>> \in (DOMAIN bills) \X (Members \ {m}) :
                   \/ UnfilteredDebt(bills[i], m, x) \in 1..EPS
                   \/ UnfilteredDebt(bills[i], x, m) \in 1..EPS})
    + Cardinality({<<i, x>> \in (DOMAIN bills) \X Members :
                     /\ Abs(StatedNet(bills[i], x)) \in 1..EPS
                     /\ x = m \/ StatedNet(bills[i], m) < -EPS})
    + Cardinality({x \in Members \ {m} :
                     Abs(Attributed(bills, m, x) - Attributed(bills, x, m)) \in 1..EPS})

PollInit ==
    /\ bills \in {<<[b EXCEPT !.id = 1]>> : b \in LedgerBills}
    /\ records \in {<<>>} \cup {<<r>> : r \in FurtherRecords}
    /\ now = Noon
    /\ view = ComputeView(bills, records)
    /\ shown = Closed
    /\ dialog = None
    /\ credit = [m \in Members |-> 0]

PollNext ==
    \/ \E i \in DOMAIN bills : OpenPayDialog(i)
    \/ Poll

PollSpec == PollInit /\ [][PollNext]_vars

Former == NumMembers + 1

EverMembers == Members \cup {Former}

StoredCoverageAmounts == {Dollars(1), EPS}

\* bills paid whole by one person, with one allocation between any two ids
StoredBills ==
    {FullBy(p) : p \in Members}
    \cup {Covered(payer, covered, a) :
            payer \in EverMembers, covered \in EverMembers, a \in StoredCoverageAmounts}

StoredRecords ==
    {[fromId |-> f, toId |-> t, amount |-> Dollars(1), type |-> ty] :
       f \in {2, Former}, t \in {1, Former}, ty \in {"forgiven", "paid"}}

RosterNext ==
    \/ bills = <<>> /\ \E b \in StoredBills : CreateBill(b)
    \/ bills # <<>> /\ \E b \in FurtherBills : CreateBill(b)
    \/ records = <<>> /\ \E r \in StoredRecords : CreateSettlementRecord(r)
    \/ ClearAllSettlementRecords

RosterSpec == Init /\ [][RosterNext]_vars

\* C14 as stated: calculateBalances and calculateSettlementsWithBreakdown
\* never raise an error, whatever the snapshot: a settlement record or a
\* coverage allocation that references an id outside the roster, or an
\* allocation whose payer is the covered member, contributes nothing
\* instead of throwing.
C14_AsStated == ~view.failed

(***************************************************************************)
(* StatusSpec: one stored bill, of any payment state and due date, seen at *)
(* any time of the local day 0 (status, paid and remaining amounts).       *)
(***************************************************************************)

DueDates == {-1, 0, 1}

\* the instants of local day 0: the UTC day is the same or a neighbour (a
\* zone ahead of UTC is at most 14 hours ahead, so that an instant of the
\* previous UTC day is past its midnight)
Clocks ==
    {c \in [utcDay : {-1, 0, 1}, pastMidnight : BOOLEAN, localDay : {0}] :
       c.utcDay = -1 => c.pastMidnight}

StoredContributions ==
    {[has |-> FALSE, map |-> EmptyMap],
     [has |-> TRUE, map |-> EmptyMap],
     [has |-> TRUE, map |-> (1 :> Dollars(2))],
     [has |-> TRUE, map |-> (1 :> Dollars(6) - 5)],
     [has |-> TRUE, map |-> (1 :> Dollars(6))],
     [has |-> TRUE, map |-> (1 :> Dollars(4)) @@ (2 :> Dollars(3))]}

DetailBills ==
    {[NewBill EXCEPT !.id = 1,
                     !.dueDate = d,
                     !.isPaid = ip,
                     !.paidBy = pb,
                     !.hasContributions = c.has,
                     !.paidContributions = c.map] :
       d \in DueDates, ip \in BOOLEAN, pb \in {0, 1}, c \in StoredContributions}

StatusInit ==
    /\ bills \in {<<b>> : b \in DetailBills}
    /\ records = <<>>
    /\ now \in Clocks
    /\ view = ComputeView(bills, records)
    /\ shown = Closed
    /\ dialog = None
    /\ credit = [m \in Members |-> 0]

StatusNext == OpenBreakdown \/ Tick

StatusSpec == StatusInit /\ [][StatusNext]_vars

(***************************************************************************)
(* Properties of the status evaluator and the contribution extractor under *)
(* StatusSpec.                                                             *)
(***************************************************************************)

\* the status as C7 states it
StatedStatus(bill, clock) ==
    IF bill.isPaid THEN "paid"
    ELSE IF getTotalPaid(bill) > 0 /\ getTotalPaid(bill) < bill.amount - EPS
         THEN "partial"
    ELSE IF bill.dueDate < clock.localDay THEN "overdue"
    ELSE "pending"

\* C7 as stated: the status shown for a bill, in the payment breakdown and
\* on the bills page, is paid if isPaid, else partial if the contributions
\* are above 0 and below the amount (within the tolerance 0.01), else
\* overdue if the due date is before today's local date, else pending; an
\* unpaid bill due today is not overdue.
C7_AsStated ==
    \A i \in DOMAIN bills :
       /\ BillsPageStatus(bills[i], now) = StatedStatus(bills[i], now)
       /\ (shown.open /\ shown.billId = bills[i].id) =>
             shown.status = StatedStatus(bills[i], now)

\* C8 as stated: the contributions of a bill are paidContributions when it
\* is present and non-empty, else paidBy with the whole amount when paidBy
\* is set, else the empty map.
C8_AsStated ==
    \A i \in DOMAIN bills :
       getBillContributions(bills[i])
       = IF bills[i].hasContributions /\ bills[i].paidContributions # EmptyMap
         THEN bills[i].paidContributions
         ELSE IF bills[i].paidBy # 0 THEN (bills[i].paidBy :> bills[i].amount)
         ELSE EmptyMap

\* C9 as stated: the remaining amount of a bill is max(0, amount - total
\* paid), never negative, both from getRemainingAmount and, in the payment
\* breakdown, from getBillRemainingAmount.
C9_AsStated ==
    \A i \in DOMAIN bills :
       /\ getRemainingAmount(bills[i]) = Max(0, bills[i].amount - getTotalPaid(bills[i]))
       /\ (shown.open /\ shown.billId = bills[i].id) =>
             /\ shown.remaining >= 0
             /\ shown.remaining = Max(0, bills[i].amount - shown.totalPaid)

(***************************************************************************)
(* FormSpec: one bill as the bill form submits it (the total of an items   *)
(* bill is the sum of its items), then the payment dialog computing its    *)
(* shares.                                                                 *)
(***************************************************************************)

\* item editor: toggleAssignment lists a person at most once; an item may be
\* left without assignee
ItemAmounts == {Dollars(3), Dollars(2), EPS}

ReceiptItems ==
    {Item(a, Ascending(S)) : a \in ItemAmounts, S \in SUBSET Members}

ItemLists == {<<x>> : x \in ReceiptItems} \cup {<<x, y>> : x, y \in ReceiptItems}

RECURSIVE SumItems(_, _)
SumItems(items, i) ==
    IF i > Len(items) THEN 0 ELSE items[i].amount + SumItems(items, i + 1)

\* BillForm handleSubmit: amount is the sum of the items for an items bill,
\* the entered amount otherwise; the bill starts unpaid
FormAmounts == {Dollars(6), Dollars(1), EPS, Dollars(10)}

FormBills ==
    {[NewBill EXCEPT !.splitType = "items", !.hasItems = TRUE, !.items = its,
                     !.amount = SumItems(its, 1)] : its \in ItemLists}
    \cup {[NewBill EXCEPT !.amount = a] : a \in FormAmounts}
    \cup {LedgerBill(s, Payment(0, FALSE, EmptyMap, EmptyMap, FALSE), <<>>) :
            s \in {x \in Splits : x.splitType \in {"mortgage", "custom", "percentage"}}}

FormNext ==
    \/ bills = <<>> /\ \E b \in FormBills : CreateBill(b)
    \/ \E i \in DOMAIN bills : OpenPayDialog(i)

FormSpec == Init /\ [][FormNext]_vars

\* the bill whose shares the payment dialog holds
DialogBills == {i \in DOMAIN bills : dialog # None /\ dialog[1].billId = bills[i].id}

EveryItemAssigned(bill) ==
    \A i \in DOMAIN bill.items : Len(bill.items[i].assignedTo) >= 1

\* C11: for an even split (the roster has at least one member) and for an
\* items split in which every item has at least one assignee, the shares
\* calculateBillShares returns sum to the bill's amount within 0.01.
C11_ShareConservation ==
    \A i \in DialogBills :
       (\/ bills[i].splitType = "even"
        \/ bills[i].splitType = "items" /\ EveryItemAssigned(bills[i]))
       => Abs(SumValues(dialog[1].shares) - bills[i].amount) <= EPS

\* an even bill whose amount does not divide by the roster, or an items
\* bill of two items shared by several members, has its shares computed
C11_Witness ==
    \E i \in DialogBills :
       \/ bills[i].splitType = "even" /\ bills[i].amount = Dollars(10)
       \/ /\ bills[i].splitType = "items"
          /\ Len(bills[i].items) = 2
          /\ EveryItemAssigned(bills[i])
          /\ Len(bills[i].items[1].assignedTo) = NumMembers

\* the items of a bill that list person p
ItemsListing(bill, p) ==
    {i \in DOMAIN bill.items :
       \E j \in DOMAIN bill.items[i].assignedTo : bill.items[i].assignedTo[j] = p}

\* item.amount / number of assignees, summed over the items that list p
StatedItemsShare(bill, p) ==
    SumSet([i \in DOMAIN bill.items |->
              IF Len(bill.items[i].assignedTo) = 0 THEN 0
              ELSE bill.items[i].amount \div Len(bill.items[i].assignedTo)],
           ItemsListing(bill, p))

\* C12: for an items bill a member's share is the sum, over the items that
\* list the member, of the item's amount divided by its number of
\* assignees; an item without assignee adds nothing, and a roster member
\* assigned to no item has share 0.
C12_ItemsShares ==
    \A i \in DialogBills :
       bills[i].splitType = "items" =>
          /\ Members \subseteq DOMAIN dialog[1].shares
          /\ \A p \in DOMAIN dialog[1].shares :
                dialog[1].shares[p] = StatedItemsShare(bills[i], p)
          /\ \A p \in Members :
                ItemsListing(bills[i], p) = {} => dialog[1].shares[p] = 0

\* items 3.00 -> [Dad, Drew] and 2.00 -> [Dad]: Dad 3.50, Drew 1.50, Mom 0
C12_Witness ==
    \E i \in DialogBills :
       /\ bills[i].items = <<Item(Dollars(3), <<1, 2>>), Item(Dollars(2), <<1>>)>>
       /\ dialog[1].shares[1] = Dollars(3) + 500
       /\ dialog[1].shares[2] = Dollars(1) + 500
       /\ dialog[1].shares[3] = 0

(***************************************************************************)
(* PaySpec: one bill split evenly with shares of 2.00, the payment         *)
(* operations on it and the members' credit.                               *)
(***************************************************************************)

Entry(payers, amounts, creditToUse, coveringFor) ==
    [payers |-> payers, amounts |-> amounts, creditToUse |-> creditToUse,
     coveringFor |-> coveringFor]

\* the bill paid: every member's share is 2.00
PayBill == [NewBill EXCEPT !.amount = NumMembers * Dollars(2)]

EntryPayers == {{1}, {2}, {1, 2}}

\* each payer enters a share or the whole amount
EntryCash == {Dollars(2), PayBill.amount}

\* Dad uses no credit or 1.00 of his credit
EntryCredit == {EmptyMap, (1 :> Dollars(1))}

EntryChoices == {CoverAllChoice, CreditChoice}

\* credit can only be entered for a selected payer
PaymentEntries ==
    {e \in {Entry(ps, [p \in ps |-> a], c, ch) :
              ps \in EntryPayers, a \in EntryCash, c \in EntryCredit,
              ch \in EntryChoices} :
       DOMAIN e.creditToUse \subseteq e.payers}

\* the members whose payments are edited, deleted or paid as their share
Editors == {1, 2}

EditedAmounts == {0, Dollars(2)}

PayNext ==
    \/ bills = <<>> /\ CreateBill(PayBill)
    \/ dialog = None /\ \E i \in DOMAIN bills : OpenPayDialog(i)
    \/ \E e \in PaymentEntries : ConfirmPayment(e)
    \/ ClosePayDialog
    \/ dialog = None /\ \E i \in DOMAIN bills : MarkUnpaid(i)
    \/ dialog = None /\ \E i \in DOMAIN bills, p \in Editors, a \in EditedAmounts :
                           UpdatePayment(i, p, a)
    \/ dialog = None /\ \E i \in DOMAIN bills, p \in Editors : DeletePayment(i, p)
    \/ dialog = None /\ \E i \in DOMAIN bills, m \in Editors :
                           PayMemberShare(i, m, RemainingShare(bills[i], m))
    \/ dialog = None /\ SetCredit(1, Dollars(1))
    \/ dialog = None /\ AddCredit(1, Dollars(1))
    \/ dialog = None /\ UseCredit(1, Dollars(2))

PaySpec == Init /\ [][PayNext]_vars

\* C17: whatever payments are recorded, edited, deleted or undone, and
\* whatever non-negative amounts addCredit, useCredit and setCredit are
\* called with, every member's stored credit is at least 0.
C17_CreditNonNegative == \A m \in Members : credit[m] >= 0

\* a payment has earned a member credit from an overpayment, and the
\* member's credit has since been taken down to zero
C17_Witness ==
    \E i \in DOMAIN bills :
       /\ ~bills[i].isPaid
       /\ \E m \in DOMAIN bills[i].creditEarned :
             bills[i].creditEarned[m] > 0 /\ credit[m] = 0

\* C18 as stated: after any sequence of payment operations (payment
\* dialog, pay-member-share, edit of a payment amount, deletion of a
\* payment, mark unpaid) the stored isPaid of a bill is true exactly when
\* its total contributions are at least its amount less 0.01.
C18_AsStated ==
    \A i \in DOMAIN bills :
       bills[i].isPaid <=> getTotalPaid(bills[i]) >= bills[i].amount - EPS

\* the stored bill holds no payment information at all
PaymentCleared(bill) ==
    /\ ~bill.isPaid
    /\ bill.paidBy = 0
    /\ ~bill.hasContributions
    /\ bill.creditUsed = EmptyMap
    /\ bill.creditEarned = EmptyMap
    /\ bill.coverageAllocations = <<>>

\* C19 as stated: after markAsUnpaid the stored bill has isPaid false,
\* paidBy null and no paidContributions, creditUsed, creditEarned or
\* coverageAllocations, so that it adds nothing to balances or settlements.
C19_AsStated ==
    [][\A i \in DOMAIN bills :
          MarkUnpaid(i) =>
             /\ PaymentCleared(bills'[i])
             /\ ~IsPaidBill(bills'[i])
             /\ \A m \in Members : calculateBalances(<<bills'[i]>>)[m].owes = 0
             /\ calculateSettlementsWithBreakdown(<<bills'[i]>>, <<>>) = <<>>]_vars

\* C20 as stated: confirming the payment dialog raises the bill's total
\* recorded contributions by exactly the cash plus the credit entered, and
\* every earlier contribution is kept, each payer's entry being raised by
\* what that payer entered; also for a single payer using no credit, and
\* when that payer enters less than the bill's amount.
C20_AsStated ==
    [][\A e \in PaymentEntries :
          ConfirmPayment(e) =>
             \A i \in DOMAIN bills :
                bills[i].id = dialog[1].billId =>
                   /\ getTotalPaid(bills'[i]) = getTotalPaid(bills[i]) + totalPayment(e)
                   /\ \A m \in Members :
                         Get(getBillContributions(bills'[i]), m)
                         = Get(getBillContributions(bills[i]), m) + PayerAmount(e, m)]_vars

\* C21: recording a payment on a bill and then marking the bill unpaid leaves
\* every member's credit as it was before the payment.
C21_AsStated ==
    dialog # None =>
      \A e \in PaymentEntries, i \in DOMAIN bills :
         ( /\ bills[i].id = dialog[1].billId
           /\ e.payers # {}
           /\ totalPayment(e) > 0
           /\ \A m \in DOMAIN e.creditToUse : e.creditToUse[m] <= credit[m] )
         => CreditAfterUnpaid(BillAfterConfirm(bills[i], e, dialog[1].shares),
                              CreditAfterConfirm(bills[i], e, dialog[1].shares))
            = credit

\* C22: no credit update is lost: when one handler issues useCredit(m, u) and
\* addCredit(m, e) for the same member, the stored credit afterwards is the
\* result of applying both to the credit stored before.
C22_AsStated ==
    [][ /\ \A e \in PaymentEntries, i \in DOMAIN bills :
             (ConfirmPayment(e) /\ bills[i].id = dialog[1].billId) =>
                \A m \in Members :
                   credit[m] >= Get(creditUsedMap(e), m) =>
                      credit'[m] = credit[m] - Get(creditUsedMap(e), m)
                                   + EarnedCredit(bills[i], e, dialog[1].shares, m)
        /\ \A i \in DOMAIN bills :
             MarkUnpaid(i) =>
                \A m \in Members :
                   credit[m] + Get(bills[i].creditUsed, m) >= Get(bills[i].creditEarned, m) =>
                      credit'[m] = credit[m] + Get(bills[i].creditUsed, m)
                                   - Get(bills[i].creditEarned, m) ]_vars

\* C24: settlement records never create a debt: a settlement from X to Y is
\* emitted only if the bills attribute more debt from X to Y than from Y to X.
C24_AsStated ==
    \A k \in DOMAIN view.settlements :
       LET x == MemberNamed(view.settlements[k].from)
           y == MemberNamed(view.settlements[k].to)
       IN Attributed(bills, x, y) > Attributed(bills, y, x)

(***************************************************************************)
(* Settling from the Settlements page: bills are created, and the          *)
(* settlements shown are forgiven or marked paid one at a time.            *)
(***************************************************************************)
SettleNext ==
    \/ bills = <<>> /\ \E b \in NettingBills : CreateBill(b)
    \/ bills # <<>> /\ records = <<>> /\ \E b \in FurtherBills : CreateBill(b)
    \/ \E k \in 1..Cardinality(OrderedPairs), t \in {"forgiven", "paid"} : SettleShown(k, t)
    \/ ClearAllSettlementRecords

SettleSpec == Init /\ [][SettleNext]_vars

\* C25: after the settlement shown as "X owes Y n" is forgiven or marked
\* paid, the settlements recomputed over the same bills have no entry
\* between X and Y in either direction.
C25_SettledPairCleared ==
    [][\A k \in DOMAIN view.settlements, t \in {"forgiven", "paid"} :
          SettleShown(k, t) =>
             EntriesBetween(view'.settlements,
                            getMemberIdByName(view.settlements[k].from),
                            getMemberIdByName(view.settlements[k].to)) = {}]_vars

\* C25 witness: the bills attribute debt in both directions between two
\* members, the net was shown and settled, and the pair has no entry left.
C25_Witness ==
    \E p \in OrderedPairs :
       /\ Attributed(bills, p[2], p[1]) > EPS
       /\ Attributed(bills, p[1], p[2]) - Attributed(bills, p[2], p[1]) > EPS
       /\ records # <<>>
       /\ records[1].fromId = p[1] /\ records[1].toId = p[2]
       /\ records[1].amount = Round2(Attributed(bills, p[1], p[2])
                                     - Attributed(bills, p[2], p[1]))
       /\ EntriesBetween(view.settlements, p[1], p[2]) = {}

\* C26: after payer P's contribution to a bill is deleted through the payment
\* breakdown while other contributions remain, the resolver attributes no
\* debt toward P on that bill.
C26_AsStated ==
    [][\A i \in DOMAIN bills, p \in Editors :
          (DeletePayment(i, p) /\ DOMAIN LegacyContributions(bills[i]) # {p}) =>
             \A d \in Members \ {p} :
                ItemsOfBill(billDebts(bills', d, p, 1), bills[i].id) = <<>>]_vars

\* the total of the stored allocations of a bill from a payer / to a member
AllocatedFrom(bill, p) ==
    SumAllocations(bill.coverageAllocations,
                   {k \in DOMAIN bill.coverageAllocations :
                      bill.coverageAllocations[k].payerId = p})

AllocatedToMember(bill, m) ==
    SumAllocations(bill.coverageAllocations,
                   {k \in DOMAIN bill.coverageAllocations :
                      bill.coverageAllocations[k].coveredId = m})

\* C27: after a payment is recorded through the payment dialog, the stored
\* allocations from each payer total at most the payer's excess over their
\* share, and the stored allocations to each member total at most the
\* member's share minus what the member has contributed.
C27_AsStated ==
    [][\A e \in PaymentEntries, i \in DOMAIN bills :
          (ConfirmPayment(e) /\ bills[i].id = dialog[1].billId) =>
             \A m \in Members :
                /\ AllocatedFrom(bills'[i], m)
                   <= Max(0, Get(getBillContributions(bills'[i]), m)
                             - Get(calculateBillShares(bills'[i]), m))
                /\ AllocatedToMember(bills'[i], m)
                   <= Max(0, Get(calculateBillShares(bills'[i]), m)
                             - Get(getBillContributions(bills'[i]), m))]_vars

(***************************************************************************)
(* DashSpec: the dashboard's member bills of the current month and the     *)
(* pay-share dialog, over snapshots of unpaid and partly paid bills due in  *)
(* the current and the neighbouring months.                                 *)
(***************************************************************************)

\* the calendar month of a due date; day 0 is the first day of month 0
MonthOf(dueDate) == dueDate \div 30

\* the bills of the month in which member m has a share above 0.01
MonthBills(bs, m, month) ==
    {i \in DOMAIN bs : /\ MonthOf(bs[i].dueDate) = month
                       /\ Get(calculateBillShares(bs[i]), m) > EPS}

\* one entry of billBreakdown
MonthlyEntry(bill, m) ==
    LET memberShare == Get(calculateBillShares(bill), m)
        memberPaid == Get(getBillContributions(bill), m)
    IN [billId |-> bill.id,
        share |-> Round2(memberShare),
        paid |-> Round2(memberPaid),
        remaining |-> Round2(Max(0, memberShare - memberPaid)),
        dueDate |-> bill.dueDate,
        isPaid |-> bill.isPaid]

\* the indices of S in ascending order of due date, ties in list order
RECURSIVE SortedByDue(_, _)
SortedByDue(bs, S) ==
    IF S = {} THEN <<>>
    ELSE LET first == CHOOSE i \in S :
                         \A j \in S : \/ bs[i].dueDate < bs[j].dueDate
                                      \/ bs[i].dueDate = bs[j].dueDate /\ i <= j
         IN <<first>> \o SortedByDue(bs, S \ {first})

\* calculateMonthlyMemberBills, for one member
calculateMonthlyMemberBills(bs, m, month) ==
    LET mine == MonthBills(bs, m, month)
        totalShare == SumSet([i \in mine |-> Get(calculateBillShares(bs[i]), m)], mine)
        amountPaid == SumSet([i \in mine |-> Get(getBillContributions(bs[i]), m)], mine)
        order == SortedByDue(bs, mine)
    IN [memberId |-> m,
        totalShare |-> Round2(totalShare),
        amountPaid |-> Round2(amountPaid),
        remaining |-> Round2(Max(0, totalShare - amountPaid)),
        billBreakdown |-> [k \in DOMAIN order |-> MonthlyEntry(bs[order[k]], m)]]

\* getUnpaidBillsForMember: the unpaid bills in which m's remaining share is
\* above 0.01, oldest due first
getUnpaidBillsForMember(bs, m) ==
    LET order == SortedByDue(bs, {i \in DOMAIN bs :
                                    ~bs[i].isPaid /\ RemainingShare(bs[i], m) > EPS})
    IN [k \in DOMAIN order |->
          [index |-> order[k], remaining |-> RemainingShare(bs[order[k]], m)]]

\* variant: every listed bill is paid its whole remaining share
RECURSIVE DistributeWhole(_, _, _)
DistributeWhole(unpaid, k, remaining) ==
    IF k > Len(unpaid) \/ remaining <= EPS THEN <<>>
    ELSE <<[index |-> unpaid[k].index,
            share |-> unpaid[k].remaining,
            paying |-> Round2(unpaid[k].remaining)]>>
         \o DistributeWhole(unpaid, k + 1, remaining - Min(remaining, unpaid[k].remaining))

\* PayShareDialog paymentDistribution: the loop over the unpaid bills
RECURSIVE Distribute(_, _, _)
Distribute(unpaid, k, remaining) ==
    IF k > Len(unpaid) \/ remaining <= EPS THEN <<>>
    ELSE LET payingThisBill == Min(remaining, unpaid[k].remaining)
         IN <<[index |-> unpaid[k].index,
               share |-> unpaid[k].remaining,
               paying |-> Round2(payingThisBill)]>>
            \o Distribute(unpaid, k + 1, remaining - payingThisBill)

\* isValid of the pay-share dialog
PayShareValid(amount, totalRemaining) == amount > 0 /\ amount <= totalRemaining + EPS

paymentDistribution(bs, m, amount, totalRemaining) ==
    IF PayShareValid(amount, totalRemaining)
    THEN Distribute(getUnpaidBillsForMember(bs, m), 1, amount)
    ELSE <<>>

\* handlePayMemberShare for one payment: the member's contribution is added
\* to the stored contributions and the bill is marked paid when they reach
\* its amount
BillAfterShare(bill, m, paying) ==
    LET newContributions ==
           MergeAdd(IF bill.hasContributions THEN bill.paidContributions ELSE EmptyMap,
                    (m :> paying))
    IN [bill EXCEPT !.isPaid = isFullPayment(TRUE, newContributions, 0, bill.amount),
                    !.paidBy = 0,
                    !.hasContributions = TRUE,
                    !.paidContributions = newContributions]

\* the payment of the distribution that goes to the bill at index i, if any
PayingTo(dist, i) ==
    SumSet([k \in DOMAIN dist |-> IF dist[k].index = i THEN dist[k].paying ELSE 0],
           DOMAIN dist)

\* the month the dashboard shows
CurrentMonth == MonthOf(now.localDay)

\* what the member's "Pay" button passes to the dialog as totalRemaining
TotalRemaining(m) == calculateMonthlyMemberBills(bills, m, CurrentMonth).remaining

\* MemberBillsCard "Pay", PayShareDialog handleConfirm, handlePayMemberShare
PayShare(m, amount) ==
    /\ ~(TotalRemaining(m) < EPS)
    /\ PayShareValid(amount, TotalRemaining(m))
    /\ LET dist == paymentDistribution(bills, m, amount, TotalRemaining(m))
       IN bills' = [i \in DOMAIN bills |->
                      IF \E k \in DOMAIN dist : dist[k].index = i
                      THEN BillAfterShare(bills[i], m, PayingTo(dist, i))
                      ELSE bills[i]]
    /\ view' = ComputeView(bills', records)
    /\ UNCHANGED <<records, now, shown, dialog, credit>>

\* the bills of the dashboard snapshots
MaxListed == 4

\* the first bill: 10.00 or 6.00, due this month, later this month or last
\* month, unpaid or with 4.00 paid by Dad (more than his share)
DashBills ==
    {[NewBill EXCEPT !.amount = a, !.dueDate = d,
                     !.hasContributions = c, !.paidContributions = IF c THEN (1 :> Dollars(4)) ELSE EmptyMap] :
       a \in {Dollars(10), Dollars(6)}, d \in {0, 1, -1}, c \in BOOLEAN}

\* the other bills: 10.00 unpaid, due this month on either day
DashFurtherBills ==
    {[NewBill EXCEPT !.amount = Dollars(10), !.dueDate = d] : d \in {0, 1}}

DashSnapshots ==
    {<<>>} \cup
    UNION {{[i \in 1..n |-> [(IF i = 1 THEN b ELSE f[i]) EXCEPT !.id = i]] :
              b \in DashBills, f \in [1..n -> DashFurtherBills]} : n \in 1..MaxListed}

DashInit ==
    /\ bills \in DashSnapshots
    /\ records = <<>>
    /\ now = Noon
    /\ view = ComputeView(bills, records)
    /\ shown = Closed
    /\ dialog = None
    /\ credit = [m \in Members |-> 0]

\* the amounts typed in the dialog, in cents: what is proposed, one cent
\* more, and 4.00
PayAmounts(m) == {TotalRemaining(m), TotalRemaining(m) + EPS, Dollars(4)}

DashNext == \E m \in {1, 2} : \E amount \in PayAmounts(m) : PayShare(m, amount)

DashSpec == DashInit /\ [][DashNext]_vars

\* the sum of what a distribution pays
TotalPaying(dist) == SumSet([k \in DOMAIN dist |-> dist[k].paying], DOMAIN dist)

\* the sum of the remaining shares of the listed bills
TotalListed(unpaid) == SumSet([k \in DOMAIN unpaid |-> unpaid[k].remaining], DOMAIN unpaid)

Distance(a, b) == IF a >= b THEN a - b ELSE b - a

\* the list holds exactly the unpaid bills in which the member's remaining
\* share is above 0.01, by ascending due date
ListedOldestFirst(m) ==
    LET unpaid == getUnpaidBillsForMember(bills, m)
    IN /\ {unpaid[k].index : k \in DOMAIN unpaid} =
            {i \in DOMAIN bills : ~bills[i].isPaid /\ RemainingShare(bills[i], m) > EPS}
       /\ \A j, k \in DOMAIN unpaid :
             j < k => bills[unpaid[j].index].dueDate <= bills[unpaid[k].index].dueDate

\* the distribution follows the list: a bill gets at most its remaining
\* share (to the cent), and gets anything only when every bill before it
\* got its whole remaining share (to the cent)
GreedyInOrder(m, amount) ==
    LET unpaid == getUnpaidBillsForMember(bills, m)
        dist == paymentDistribution(bills, m, amount, TotalRemaining(m))
    IN /\ Len(dist) <= Len(unpaid)
       /\ \A k \in DOMAIN dist :
             /\ dist[k].index = unpaid[k].index
             /\ dist[k].paying <= unpaid[k].remaining + EPS \div 2
             /\ \A j \in 1..(k - 1) : dist[j].paying = Round2(unpaid[j].remaining)

\* the distribution pays min(amount, total of the listed bills) within tol
PaysInTotal(m, amount, tol) ==
    LET unpaid == getUnpaidBillsForMember(bills, m)
        dist == paymentDistribution(bills, m, amount, TotalRemaining(m))
    IN Distance(TotalPaying(dist), Min(amount, TotalListed(unpaid))) <= tol

\* the member's "Pay" button is shown and the dialog accepts the amount
Accepted(m, amount) ==
    ~(TotalRemaining(m) < EPS) /\ PayShareValid(amount, TotalRemaining(m))

\* C29 as stated: for every member and every accepted amount, the
\* pay-share distribution over the member's unpaid bills (oldest due first)
\* gives each bill at most its remaining share, gives to a bill only when
\* the earlier bills got their whole remaining share, and gives
\* min(amount, total remaining of the listed bills) in total within 0.01.
C29_AsStated ==
    \A m \in Members : \A amount \in PayAmounts(m) :
       Accepted(m, amount) =>
          /\ ListedOldestFirst(m)
          /\ GreedyInOrder(m, amount)
          /\ PaysInTotal(m, amount, EPS)

\* C29: the same, with the total within 0.01 (what the loop leaves when it
\* stops) plus half a cent for every bill the distribution pays (each
\* payment is rounded to the cent while the running amount is reduced by
\* the unrounded payment).
C29_GreedyDistribution ==
    \A m \in Members : \A amount \in PayAmounts(m) :
       Accepted(m, amount) =>
          /\ ListedOldestFirst(m)
          /\ GreedyInOrder(m, amount)
          /\ PaysInTotal(m, amount,
                EPS + (EPS \div 2) * Len(paymentDistribution(bills, m, amount, TotalRemaining(m))))

\* Drew paid 4.00 over two 10.00 bills: 3.33 to the one due first, 0.67 to
\* the next
C29_Witness ==
    \E i, j \in DOMAIN bills :
       /\ i # j
       /\ bills[i].dueDate <= bills[j].dueDate
       /\ bills[i].hasContributions /\ Get(bills[i].paidContributions, 2) = 3330
       /\ bills[j].hasContributions /\ Get(bills[j].paidContributions, 2) = 670

\* the sum of one field of the breakdown entries
SumEntries(entries, field) ==
    SumSet([k \in DOMAIN entries |-> entries[k][field]], DOMAIN entries)

\* C30 as stated: for every member, the totals of the current month are the
\* sums of the member's breakdown entries: totalShare of the shares,
\* amountPaid of the paid amounts and remaining of the remaining amounts,
\* each within the rounding of the entries and of the total (half a cent
\* each), also when the member overpaid one bill and underpaid another.
C30_AsStated ==
    \A m \in Members :
       LET month == calculateMonthlyMemberBills(bills, m, CurrentMonth)
           rounding == (EPS \div 2) * (Len(month.billBreakdown) + 1)
       IN /\ Distance(month.totalShare, SumEntries(month.billBreakdown, "share")) <= rounding
          /\ Distance(month.amountPaid, SumEntries(month.billBreakdown, "paid")) <= rounding
          /\ Distance(month.remaining, SumEntries(month.billBreakdown, "remaining")) <= rounding

====
